---- MODULE Spec2Model ----
(***************************************************************************)
(* The User account model (src/models/user/User.js) and the admin         *)
(* submissions report handler (src/unnamed/part_001) as state machines.    *)
(*                                                                         *)
(* Every asynchronous database operation of a model call is one atomic     *)
(* step; the synchronous prefix of a call (its argument checks up to the   *)
(* first asynchronous operation) is the invoking step.                     *)
(***************************************************************************)
EXTENDS Integers, Sequences, FiniteSets, TLC

VARIABLES
    users,     \* the users collection: ObjectId hex string -> document
    calls,     \* the calls of the model's static operations, one record per call
    before,    \* the users collection as it was when the latest sequential call was invoked
    report     \* the state of one request to the submissions report handler

vars == <<users, calls, before, report>>

(***************************************************************************)
(* Bounds of the model.                                                    *)
(***************************************************************************)
MaxCalls == 2      \* calls of the model operations in one behaviour
MaxUsers == 2      \* documents the collection can hold
MaxSubs == 31      \* submissions of a campaign
MaxOrder == 3      \* reports of up to this many lookups explore every completion order
MaxPasswordLen == 7   \* characters of a password given to createUser

(***************************************************************************)
(* Program constants.                                                      *)
(***************************************************************************)
MinPasswordLength == 6
MinBirthYear == 1920
MaxBirthYear == 2020
DuplicateKeyCode == 11000
MaxLookups == 30

(***************************************************************************)
(* JavaScript values. A value is [t, s]: its type and, for a string, its   *)
(* characters; for a number, the characters of its decimal form.           *)
(***************************************************************************)
Null == [t |-> "null", s |-> <<>>]
Str(s) == [t |-> "str", s |-> s]
Num(s) == [t |-> "num", s |-> s]
Obj == [t |-> "obj", s |-> <<"[", "o", "]">>]

Digits == {"0", "1", "2", "3", "4", "5", "6", "7", "8", "9"}
HexChars == Digits \cup {"a", "b", "c", "d", "e", "f"}
DigitVal == [c \in Digits |->
    CASE c = "0" -> 0 [] c = "1" -> 1 [] c = "2" -> 2 [] c = "3" -> 3 [] c = "4" -> 4
      [] c = "5" -> 5 [] c = "6" -> 6 [] c = "7" -> 7 [] c = "8" -> 8 [] c = "9" -> 9]

\* !v is FALSE: null, undefined, "" and 0 are falsy
Truthy(v) ==
    CASE v.t = "null" -> FALSE
      [] v.t = "str" -> v.s # <<>>
      [] v.t = "num" -> \E i \in 1..Len(v.s) : v.s[i] \in Digits \ {"0"}
      [] OTHER -> TRUE

\* v.toString()
toString(v) == v.s

\* s.split(' ').join('')
RECURSIVE StripSpaces(_)
StripSpaces(s) ==
    IF s = <<>> THEN <<>>
    ELSE IF Head(s) = " " THEN StripSpaces(Tail(s))
    ELSE <<Head(s)>> \o StripSpaces(Tail(s))

RECURSIVE TrimLeft(_)
TrimLeft(s) == IF s # <<>> /\ Head(s) = " " THEN TrimLeft(Tail(s)) ELSE s

RECURSIVE TrimRight(_)
TrimRight(s) ==
    IF s # <<>> /\ s[Len(s)] = " " THEN TrimRight(SubSeq(s, 1, Len(s) - 1)) ELSE s

\* s.trim()
Trim(s) == TrimRight(TrimLeft(s))

\* The value of the longest prefix of decimal digits of s, from acc.
RECURSIVE DigitPrefix(_, _)
DigitPrefix(s, acc) ==
    IF s # <<>> /\ Head(s) \in Digits
    THEN DigitPrefix(Tail(s), 10 * acc + DigitVal[Head(s)])
    ELSE acc

\* parseInt(v): leading blanks skipped, then the leading digits; NaN without one
ParseInt(v) ==
    LET s == TrimLeft(toString(v))
    IN  IF v.t \in {"str", "num"} /\ s # <<>> /\ Head(s) \in Digits
        THEN [nan |-> FALSE, v |-> DigitPrefix(s, 0)]
        ELSE [nan |-> TRUE, v |-> 0]

(***************************************************************************)
(* The validator library, by what its predicates accept.                   *)
(***************************************************************************)
\* validator.isMongoId: 24 hexadecimal characters
IsMongoId(s) == Len(s) = 24 /\ \A i \in 1..Len(s) : s[i] \in HexChars

\* validator.isEmail: local@domain, both non-empty, without blanks
IsEmail(s) ==
    /\ Cardinality({i \in 1..Len(s) : s[i] = "@"}) = 1
    /\ \A i \in 1..Len(s) : s[i] # " "
    /\ s[1] # "@"
    /\ s[Len(s)] # "@"

\* validator.isMobilePhone: digits only, at least one
IsMobilePhone(s) == s # <<>> /\ \A i \in 1..Len(s) : s[i] \in Digits

\* The hex string of the n-th ObjectId.
ObjectIdHex(n) == [i \in 1..24 |-> IF i = 24 THEN CHOOSE c \in Digits : DigitVal[c] = n ELSE "0"]

(***************************************************************************)
(* Collaborators of the model that live outside the shown sources.         *)
(***************************************************************************)
\* hashPassword (the pre-save hook): a one-way image of the plaintext
hashPassword(p) == <<"#">> \o p

\* verifyPassword(plaintext, hash, callback): whether hash is plaintext's image
verifyPassword(p, h) == h = hashPassword(p)

\* getUser(user, callback): the user without its secret; an error without a user
NoDoc == [none |-> TRUE]
NoResult == [noresult |-> TRUE]
getUser(user) ==
    IF user = NoDoc
    THEN [err |-> "document_not_found", user |-> NoResult]
    ELSE [err |-> "null",
          user |-> [f \in DOMAIN user \ {"password"} |-> user[f]]]

\* Country.getCountryWithAlpha2Code: the country of a code, in either case
US == <<"U", "S">>
TR == <<"T", "R">>
CountryCodes == (<<"u", "s">> :> US) @@ (US :> US) @@ (TR :> TR)
getCountryWithAlpha2Code(code) ==
    IF code.t = "str" /\ code.s \in DOMAIN CountryCodes
    THEN [found |-> TRUE, alpha2_code |-> CountryCodes[code.s]]
    ELSE [found |-> FALSE, alpha2_code |-> <<>>]

\* Country.validateCityAndTown(country, data, callback): the town lies in the
\* city and the city in the country
CityTowns == {<<US, <<"N", "Y">>, <<"Q">>>>, <<TR, <<"I", "S">>, <<"K">>>>}
validateCityAndTown(country, city, town) ==
    /\ country.t = "str" /\ city.t = "str" /\ town.t = "str"
    /\ <<country.s, city.s, town.s>> \in CityTowns

(***************************************************************************)
(* The users collection.                                                   *)
(***************************************************************************)
NullNumber == [t |-> "null", v |-> 0]
Number(n) == [t |-> "num", v |-> n]

\* new User(data): the schema's defaults under the given fields
NewUser(id, newUserData) ==
    [_id |-> id,
     email |-> newUserData.email,
     password |-> hashPassword(newUserData.password),
     agreement_approved |-> newUserData.agreement_approved,
     completed |-> FALSE,
     country |-> Null, name |-> Null, phone |-> Null, gender |-> Null,
     birth_year |-> NullNumber,
     city |-> Null, town |-> Null,
     information |-> <<>>, paid_campaigns |-> <<>>, campaigns |-> <<>>,
     payment_number |-> Null,
     credit |-> Number(0), waiting_credit |-> Number(0), overall_credit |-> Number(0),
     invitor |-> newUserData.invitor,
     password_reset_code |-> Null, password_reset_last_date |-> NullNumber]

\* User.findById(id)
findById(id) == IF id \in DOMAIN users THEN users[id] ELSE NoDoc

\* User.findOne({email})
findOne(email) ==
    IF \E id \in DOMAIN users : users[id].email = email
    THEN users[CHOOSE id \in DOMAIN users : users[id].email = email]
    ELSE NoDoc

\* The collection after findByIdAndUpdate(id, {$set: set}); set is a record.
findByIdAndUpdate(id, set) ==
    IF id \in DOMAIN users
    THEN [users EXCEPT ![id] =
            [f \in DOMAIN @ |-> IF f \in DOMAIN set THEN set[f] ELSE @[f]]]
    ELSE users

\* newUser.save(): the unique index on email rejects a stored email with the
\* duplicate key error; fault is a persistence failure of another kind
OtherError == [code |-> 0, failed |-> TRUE]
NoError == [code |-> 0, failed |-> FALSE]
saveError(newUserData, fault) ==
    IF fault THEN OtherError
    ELSE IF \E id \in DOMAIN users : users[id].email = newUserData.email
    THEN [code |-> DuplicateKeyCode, failed |-> TRUE]
    ELSE NoError

NextObjectId == ObjectIdHex(Cardinality(DOMAIN users) + 1)

(***************************************************************************)
(* Calls. cb is the sequence of the invocations of the call's callback;    *)
(* wrote, faulted and late record what happened to the call: it wrote a    *)
(* document, a database operation of it failed, a step of it ran after its *)
(* callback had been given an error.                                       *)
(***************************************************************************)
CallIds == 1..MaxCalls

IdleCall ==
    [op |-> "none", pc |-> "idle", args |-> <<>>, user |-> NoDoc, set |-> <<>>,
     cb |-> <<>>, wrote |-> FALSE, faulted |-> FALSE, late |-> FALSE, dup |-> FALSE]

\* callback(err, res)
Callback(call, err, res) ==
    [call EXCEPT !.cb = Append(@, [err |-> err, res |-> res])]

\* return callback(err, res): the call ends
Return(call, err, res) == [Callback(call, err, res) EXCEPT !.pc = "done"]

\* A call is invoked once the calls before it have been.
CanInvoke(c) ==
    /\ calls[c].pc = "idle"
    /\ \A d \in CallIds : d < c => calls[d].pc # "idle"

InFlight(c) == calls[c].pc \notin {"idle", "done", "thrown", "hung"}

Field(data, f) == IF data.t = "obj" /\ f \in DOMAIN data THEN data[f] ELSE Null

(***************************************************************************)
(* createUser(data, callback)                                              *)
(***************************************************************************)
newUserDataOf(data) ==
    [email |-> data.email.s,
     password |-> data.password.s,
     invitor |-> IF Truthy(data.code) /\ IsMongoId(toString(data.code))
                 THEN Str(toString(data.code)) ELSE Null,
     agreement_approved |-> TRUE]

\* the argument checks with the password bound off by one
createUserCheck_offByOne(data) ==
    IF \/ data.t # "obj"
       \/ ~Truthy(data.email) \/ ~Truthy(data.password)
       \/ data.email.t # "str" \/ data.password.t # "str"
    THEN "bad_request"
    ELSE IF ~IsEmail(data.email.s) THEN "email_validation"
    ELSE IF Len(data.password.s) <= MinPasswordLength THEN "password_length"
    ELSE "null"

\* The error of the argument checks, "null" when they pass.
createUserCheck(data) ==
    IF \/ data.t # "obj"
       \/ ~Truthy(data.email) \/ ~Truthy(data.password)
       \/ data.email.t # "str" \/ data.password.t # "str"
    THEN "bad_request"
    ELSE IF ~IsEmail(data.email.s) THEN "email_validation"
    ELSE IF Len(data.password.s) < MinPasswordLength THEN "password_length"
    ELSE "null"

\* createUser taking every error of save for a database error
createUserSaveError_anyError(err) == IF err.failed THEN "database_error" ELSE "null"

\* The error createUser reports for the error of save.
createUserSaveError(err) ==
    IF err.failed /\ err.code = DuplicateKeyCode THEN "email_duplication"
    ELSE IF err.failed THEN "database_error"
    ELSE "null"

createUser_invoke(c, data) ==
    /\ CanInvoke(c)
    /\ Cardinality(DOMAIN users)
         + Cardinality({d \in CallIds : calls[d].op = "createUser" /\ InFlight(d)})
         < MaxUsers
    /\ LET call == [IdleCall EXCEPT !.op = "createUser", !.args = [data |-> data]]
           err == createUserCheck(data)
       IN  calls' = [calls EXCEPT ![c] =
                IF err # "null" THEN Return(call, err, NoResult)
                ELSE [call EXCEPT !.pc = "save", !.set = newUserDataOf(data)]]
    /\ UNCHANGED <<users, report>>

createUser_save(c) ==
    /\ calls[c].op = "createUser" /\ calls[c].pc = "save"
    /\ \E fault \in BOOLEAN :
        LET call == [calls[c] EXCEPT
                        !.faulted = fault,
                        !.dup = \E id \in DOMAIN users : users[id].email = calls[c].set.email]
            err == saveError(call.set, fault)
            user == NewUser(NextObjectId, call.set)
        IN  IF err.failed
            THEN /\ calls' = [calls EXCEPT ![c] =
                        Return(call, createUserSaveError(err), NoResult)]
                 /\ UNCHANGED users
            ELSE /\ users' = (NextObjectId :> user) @@ users
                 /\ calls' = [calls EXCEPT ![c] =
                        Return([call EXCEPT !.wrote = TRUE, !.user = user],
                               getUser(user).err, getUser(user).user)]
    /\ UNCHANGED <<before, report>>

(***************************************************************************)
(* getUserById(id, callback)                                               *)
(***************************************************************************)
getUserById_invoke(c, id) ==
    /\ CanInvoke(c)
    /\ LET call == [IdleCall EXCEPT !.op = "getUserById", !.args = [id |-> id]]
       IN  calls' = [calls EXCEPT ![c] =
                IF ~Truthy(id) \/ ~IsMongoId(toString(id))
                THEN Return(call, "bad_request", NoResult)
                ELSE [call EXCEPT !.pc = "findById"]]
    /\ UNCHANGED <<users, report>>

getUserById_findById(c) ==
    /\ calls[c].op = "getUserById" /\ calls[c].pc = "findById"
    /\ \E fault \in BOOLEAN :
        LET call == [calls[c] EXCEPT !.faulted = fault]
            user == findById(toString(call.args.id))
        IN  calls' = [calls EXCEPT ![c] =
                IF fault THEN Return(call, "MongoError", NoResult)
                ELSE Return([call EXCEPT !.user = user], "null", user)]
    /\ UNCHANGED <<users, before, report>>

(***************************************************************************)
(* completeUser(id, data, callback)                                        *)
(***************************************************************************)
Male == <<"m", "a", "l", "e">>
Female == <<"f", "e", "m", "a", "l", "e">>
Other == <<"o", "t", "h", "e", "r">>
NotSpecified == <<"n", "o", "t", "_", "s", "p", "e", "c", "i", "f", "i", "e", "d">>
Erkek == <<"e", "r", "k", "e", "k">>
\* the fourth character stands for the dotless i of the source
Kadin == <<"k", "a", "d", "dotless_i", "n">>

allowedGenderValues == {Male, Female, Other, NotSpecified}

\* data.phone after line 240; a truthy phone without split is a TypeError
strippedPhone(data) ==
    IF Truthy(data.phone) THEN Str(StripSpaces(data.phone.s)) ELSE Null

birthYearInvalid(birth_year) ==
    \/ ~Truthy(birth_year)
    \/ ParseInt(birth_year).nan
    \/ ParseInt(birth_year).v < MinBirthYear
    \/ ParseInt(birth_year).v > MaxBirthYear

\* The outcome of the synchronous checks: an error for the callback, "TypeError"
\* for an exception that leaves the call, "null" when they pass.
completeUserCheck(id, data) ==
    IF data.t # "obj" \/ ~Truthy(id) \/ ~IsMongoId(toString(id))
    THEN "bad_request"
    ELSE IF ~Truthy(data.name) \/ data.name.t # "str" THEN "bad_request"
    ELSE IF Truthy(data.phone) /\ data.phone.t # "str" THEN "TypeError"
    ELSE IF ~Truthy(strippedPhone(data)) \/ ~IsMobilePhone(toString(strippedPhone(data)))
    THEN "phone_validation"
    ELSE IF ~Truthy(data.gender) \/ data.gender.t # "str"
            \/ data.gender.s \notin allowedGenderValues
    THEN "bad_request"
    ELSE IF birthYearInvalid(data.birth_year) THEN "bad_request"
    ELSE "null"

\* a completion that leaves the country out of its $set
completeUserSet_noCountry(data, country) ==
    [name |-> data.name,
     phone |-> strippedPhone(data),
     gender |-> data.gender,
     birth_year |-> Number(ParseInt(data.birth_year).v),
     completed |-> TRUE]

\* The $set of completeUser, once the country is known.
completeUserSet(data, country) ==
    [name |-> data.name,
     country |-> Str(country.alpha2_code),
     phone |-> strippedPhone(data),
     gender |-> data.gender,
     birth_year |-> Number(ParseInt(data.birth_year).v),
     completed |-> TRUE]

\* completeUser without its check of completed
completeUserRefuses_never(user) == FALSE

\* Whether completeUser refuses the document it read.
completeUserRefuses(user) == user.completed

completeUser_invoke(c, id, data) ==
    /\ CanInvoke(c)
    /\ LET call == [IdleCall EXCEPT !.op = "completeUser",
                                    !.args = [id |-> id, data |-> data]]
           err == completeUserCheck(id, data)
       IN  calls' = [calls EXCEPT ![c] =
                IF err = "TypeError" THEN [call EXCEPT !.pc = "thrown"]
                ELSE IF err # "null" THEN Return(call, err, NoResult)
                ELSE [call EXCEPT !.pc = "getCountry"]]
    /\ UNCHANGED <<users, report>>

completeUser_getCountry(c) ==
    /\ calls[c].op = "completeUser" /\ calls[c].pc = "getCountry"
    /\ \E fault \in BOOLEAN :
        LET call == [calls[c] EXCEPT !.faulted = fault]
            country == getCountryWithAlpha2Code(call.args.data.country)
        IN  calls' = [calls EXCEPT ![c] =
                IF fault \/ ~country.found
                THEN Return(call, "bad_request", NoResult)
                ELSE [call EXCEPT !.pc = "findById",
                                  !.set = completeUserSet(call.args.data, country)]]
    /\ UNCHANGED <<users, before, report>>

completeUser_findById(c) ==
    /\ calls[c].op = "completeUser" /\ calls[c].pc = "findById"
    /\ \E fault \in BOOLEAN :
        LET call == [calls[c] EXCEPT !.faulted = fault]
            user == findById(toString(call.args.id))
        IN  calls' = [calls EXCEPT ![c] =
                IF fault \/ user = NoDoc
                THEN Return(call, "document_not_found", NoResult)
                ELSE IF completeUserRefuses(user)
                THEN Return([call EXCEPT !.user = user], "already_authenticated", NoResult)
                ELSE [call EXCEPT !.user = user, !.pc = "update"]]
    /\ UNCHANGED <<users, before, report>>

completeUser_update(c) ==
    /\ calls[c].op = "completeUser" /\ calls[c].pc = "update"
    /\ \E fault \in BOOLEAN :
        LET call == [calls[c] EXCEPT !.faulted = fault]
            id == toString(call.args.id)
        IN  IF fault
            THEN /\ calls' = [calls EXCEPT ![c] = Return(call, "database_error", NoResult)]
                 /\ UNCHANGED users
            ELSE /\ users' = findByIdAndUpdate(id, call.set)
                 /\ calls' = [calls EXCEPT ![c] =
                        IF findById(id) = NoDoc
                        THEN Return(call, "document_not_found", NoResult)
                        ELSE Return([call EXCEPT !.wrote = TRUE], "null", NoResult)]
    /\ UNCHANGED <<before, report>>

(***************************************************************************)
(* updateUser(id, data, callback)                                          *)
(***************************************************************************)
\* The type of data the argument check lets through.
updateUserDataType == "str"

updateUserCheck(id, data) ==
    IF ~Truthy(id) \/ ~IsMongoId(toString(id))
       \/ data.t = "null" \/ (data.t = "str" /\ data.s = <<>>)
       \/ data.t # updateUserDataType
    THEN "bad_request"
    ELSE "null"

\* The name and phone of the $set: the given one if valid, else the one read.
updateUserNamePhone(data, user) ==
    [name |-> IF Truthy(Field(data, "name")) /\ Field(data, "name").t = "str"
              THEN Field(data, "name") ELSE user.name,
     phone |-> IF Truthy(Field(data, "phone"))
                  /\ IsMobilePhone(toString(Field(data, "phone")))
               THEN Field(data, "phone") ELSE user.phone]

updateUser_invoke(c, id, data) ==
    /\ CanInvoke(c)
    /\ LET call == [IdleCall EXCEPT !.op = "updateUser",
                                    !.args = [id |-> id, data |-> data]]
           err == updateUserCheck(id, data)
       IN  calls' = [calls EXCEPT ![c] =
                IF err # "null" THEN Return(call, err, NoResult)
                ELSE [call EXCEPT !.pc = "findById"]]
    /\ UNCHANGED <<users, report>>

\* findById and, when city and town are given, validateCityAndTown
updateUser_findById(c) ==
    /\ calls[c].op = "updateUser" /\ calls[c].pc = "findById"
    /\ \E fault \in BOOLEAN :
        LET call == [calls[c] EXCEPT !.faulted = fault]
            data == call.args.data
            user == findById(toString(call.args.id))
        IN  calls' = [calls EXCEPT ![c] =
                IF fault \/ user = NoDoc
                THEN Return(call, "document_not_found", NoResult)
                ELSE IF Truthy(Field(data, "city")) /\ Truthy(Field(data, "town"))
                THEN IF ~validateCityAndTown(user.country, Field(data, "city"),
                                             Field(data, "town"))
                     THEN Return([call EXCEPT !.user = user], "bad_request", NoResult)
                     ELSE [call EXCEPT !.user = user, !.pc = "update",
                              !.set = updateUserNamePhone(data, user)
                                        @@ [city |-> Field(data, "city"),
                                            town |-> Field(data, "town")]]
                ELSE [call EXCEPT !.user = user, !.pc = "update",
                                  !.set = updateUserNamePhone(data, user)]]
    /\ UNCHANGED <<users, before, report>>

updateUser_update(c) ==
    /\ calls[c].op = "updateUser" /\ calls[c].pc = "update"
    /\ \E fault \in BOOLEAN :
        LET call == [calls[c] EXCEPT !.faulted = fault]
        IN  IF fault
            THEN /\ calls' = [calls EXCEPT ![c] = Return(call, "database_error", NoResult)]
                 /\ UNCHANGED users
            ELSE /\ users' = findByIdAndUpdate(toString(call.args.id), call.set)
                 /\ calls' = [calls EXCEPT ![c] =
                        Return([call EXCEPT !.wrote = TRUE], "null", NoResult)]
    /\ UNCHANGED <<before, report>>

(***************************************************************************)
(* findUser(email, password, callback)                                     *)
(***************************************************************************)
legacyGender(user) == Truthy(user.gender) /\ user.gender.s \in {Erkek, Kadin}

\* a normalization that writes back the gender it read
findUserSet_unchanged(user) == [gender |-> user.gender]

\* The $set of the normalization.
findUserSet(user) == [gender |-> IF user.gender.s = Erkek THEN Str(Male) ELSE Str(Female)]

findUser_invoke(c, email, password) ==
    /\ CanInvoke(c)
    /\ LET call == [IdleCall EXCEPT !.op = "findUser",
                                    !.args = [email |-> email, password |-> password]]
       IN  calls' = [calls EXCEPT ![c] =
                IF ~Truthy(email) \/ ~Truthy(password) \/ ~IsEmail(email.s)
                THEN Return(call, "bad_request", NoResult)
                ELSE [call EXCEPT !.pc = "findOne"]]
    /\ UNCHANGED <<users, report>>

\* findOne's promise, then verifyPassword; a rejection or an exception in the
\* promise's handler is caught by nothing and the callback is never called
findUser_findOne(c) ==
    /\ calls[c].op = "findUser" /\ calls[c].pc = "findOne"
    /\ \E fault \in BOOLEAN :
        LET call == [calls[c] EXCEPT !.faulted = fault]
            user == findOne(Trim(call.args.email.s))
        IN  calls' = [calls EXCEPT ![c] =
                IF fault THEN [call EXCEPT !.pc = "hung"]
                ELSE IF user = NoDoc THEN Return(call, "document_not_found", NoResult)
                ELSE IF call.args.password.t # "str" THEN [call EXCEPT !.pc = "hung"]
                ELSE IF ~verifyPassword(Trim(call.args.password.s), user.password)
                THEN Return([call EXCEPT !.user = user], "password_verification", NoResult)
                ELSE IF legacyGender(user)
                THEN [call EXCEPT !.user = user, !.pc = "normalize",
                                  !.set = findUserSet(user)]
                ELSE Return([call EXCEPT !.user = user],
                            getUser(user).err, getUser(user).user)]
    /\ UNCHANGED <<users, before, report>>

\* What follows callback('database_error') when the normalization fails:
\* getUser is called without a user.
findUserAfterError(call) ==
    LET told == [Callback(call, "database_error", NoResult) EXCEPT !.late = TRUE]
    IN  {Return(told, getUser(NoDoc).err, getUser(NoDoc).user),
         [told EXCEPT !.pc = "thrown"]}

findUser_normalize(c) ==
    /\ calls[c].op = "findUser" /\ calls[c].pc = "normalize"
    /\ \E fault \in BOOLEAN :
        LET call == [calls[c] EXCEPT !.faulted = fault]
            id == toString(Str(call.user._id))
        IN  IF fault
            THEN /\ \E after \in findUserAfterError(call) :
                        calls' = [calls EXCEPT ![c] = after]
                 /\ UNCHANGED users
            ELSE /\ users' = findByIdAndUpdate(id, call.set)
                 /\ LET user == findByIdAndUpdate(id, call.set)[id]
                    IN  calls' = [calls EXCEPT ![c] =
                            Return([call EXCEPT !.wrote = TRUE],
                                   getUser(user).err, getUser(user).user)]
    /\ UNCHANGED <<before, report>>

(***************************************************************************)
(* The collections a behaviour starts from: empty, one account that was    *)
(* created and not completed, or one account completed when completion     *)
(* still stored the legacy gender values.                                  *)
(***************************************************************************)
EmailA == <<"a", "@", "b">>
EmailB == <<"c", "@", "d">>
Secret == <<"s", "e", "c", "r", "e", "t">>
Phone == <<"5", "5", "5">>
Oid1 == ObjectIdHex(1)
Oid2 == ObjectIdHex(2)

FreshUser ==
    NewUser(Oid1, [email |-> EmailA, password |-> Secret, invitor |-> Null,
                   agreement_approved |-> TRUE])

LegacyUser(gender) ==
    [FreshUser EXCEPT !.completed = TRUE, !.name = Str(<<"L">>), !.phone = Str(Phone),
                      !.country = Str(TR), !.gender = Str(gender),
                      !.birth_year = Number(1990)]

InitialUsers ==
    {<<>>, Oid1 :> FreshUser, Oid1 :> LegacyUser(Erkek), Oid1 :> LegacyUser(Kadin)}

IdleReport == [pc |-> "idle", responses |-> <<>>, status |-> <<>>, n |-> 0, called |-> FALSE]

(***************************************************************************)
(* Spec: the calls of the five operations, interleaved step by step.       *)
(***************************************************************************)
CreateData(email, password, code) ==
    [t |-> "obj", email |-> email, password |-> password, code |-> code]
CompleteData(name, phone, gender, birth_year, country) ==
    [t |-> "obj", name |-> name, phone |-> phone, gender |-> gender,
     birth_year |-> birth_year, country |-> country]
UpdateData(name, phone, city, town) ==
    [t |-> "obj", name |-> name, phone |-> phone, city |-> city, town |-> town]

ProfileA ==
    CompleteData(Str(<<"A">>), Str(<<"5", " ", "5">>), Str(Male),
                 Str(<<"1", "9", "9", "5">>), Str(US))
ProfileB ==
    CompleteData(Str(<<"B">>), Str(<<"7", "7">>), Str(Other),
                 Num(<<"2", "0", "0", "0">>), Str(<<"u", "s">>))

SpecIds == {Str(Oid1)}
SpecCreateData == {CreateData(Str(EmailA), Str(Secret), Null),
                   CreateData(Str(EmailB), Str(Secret), Null),
                   CreateData(Str(EmailA), Str(<<"p">>), Null)}
SpecCompleteData == {ProfileA, ProfileB}
SpecUpdateData == {Str(<<"x">>), UpdateData(Str(<<"N">>), Null, Null, Null)}
SpecLogins == {<<Str(EmailA), Str(Secret)>>, <<Str(EmailA), Str(<<"w">>)>>}

Init ==
    /\ users \in InitialUsers
    /\ calls = [c \in CallIds |-> IdleCall]
    /\ before = <<>>
    /\ report = IdleReport

Invoke(c) ==
    \/ \E data \in SpecCreateData : createUser_invoke(c, data)
    \/ \E id \in SpecIds, data \in SpecCompleteData : completeUser_invoke(c, id, data)
    \/ \E id \in SpecIds, data \in SpecUpdateData : updateUser_invoke(c, id, data)
    \/ \E login \in SpecLogins : findUser_invoke(c, login[1], login[2])
    \/ \E id \in SpecIds : getUserById_invoke(c, id)

Step(c) ==
    \/ createUser_save(c)
    \/ getUserById_findById(c)
    \/ completeUser_getCountry(c)
    \/ completeUser_findById(c)
    \/ completeUser_update(c)
    \/ updateUser_findById(c)
    \/ updateUser_update(c)
    \/ findUser_findOne(c)
    \/ findUser_normalize(c)

Next ==
    \/ \E c \in CallIds : Invoke(c) /\ UNCHANGED before
    \/ \E c \in CallIds : Step(c)

Spec == Init /\ [][Next]_vars

(***************************************************************************)
(* SpecSeq: completeUser called again and again, each call after the one   *)
(* before it has ended.                                                    *)
(***************************************************************************)
NoneInFlight == \A c \in CallIds : ~InFlight(c)

SeqIds == {Str(Oid1), Str(Oid2)}

NextSeq ==
    \/ /\ NoneInFlight /\ before' = users
       /\ \E c \in CallIds, id \in SeqIds, data \in SpecCompleteData :
                completeUser_invoke(c, id, data)
    \/ \E c \in CallIds : completeUser_getCountry(c)
    \/ \E c \in CallIds : completeUser_findById(c)
    \/ \E c \in CallIds : completeUser_update(c)

SpecSeq == Init /\ [][NextSeq]_vars

(***************************************************************************)
(* SpecInputs: one call of createUser, completeUser or updateUser, its     *)
(* arguments drawn from every kind of value the checks tell apart.         *)
(***************************************************************************)
Garbage == <<"z", "z">>
Password(n) == [i \in 1..n |-> "p"]

InputIds == {Null, Str(Oid1), Str(Oid2), Str(Garbage)}
InputNames == {Null, Str(<<"A">>), Num(<<"5">>)}
InputPhones == {Null, Str(<<"5", " ", "5">>), Str(<<"5", "x">>), Str(<<" ">>),
                Num(<<"5", "5">>)}
InputGenders == {Null, Str(Male), Str(Female), Str(Other), Str(NotSpecified),
                 Str(Erkek), Num(<<"1">>)}
InputBirthYears ==
    {Null, Num(<<"0">>), Str(<<"a", "b">>),
     Str(<<"1", "9", "1", "9">>), Str(<<"1", "9", "2", "0">>),
     Str(<<"2", "0", "2", "0">>), Str(<<"2", "0", "2", "1">>),
     Num(<<"1", "9", "1", "9">>), Num(<<"1", "9", "2", "0">>),
     Num(<<"2", "0", "2", "0">>), Num(<<"2", "0", "2", "1">>),
     Str(<<" ", "1", "9", "9", "5", "x">>)}
InputCountries == {Null, Str(US), Str(<<"u", "s">>), Str(Garbage)}
InputEmails == {Null, Str(EmailA), Str(EmailB), Str(<<"a", "b">>), Str(<<"a", " ", "@", "b">>),
                Num(<<"5">>)}
InputPasswords == {Null, Num(<<"1", "2", "3", "4", "5", "6">>)}
                    \cup {Str(Password(n)) : n \in 0..MaxPasswordLen}
InputCodes == {Null, Str(Oid1), Str(Garbage), Num(<<"5">>)}
InputCities == {Null, Str(<<"I", "S">>), Str(<<"N", "Y">>)}
InputTowns == {Null, Str(<<"K">>), Str(<<"Q">>)}
InputPlain == {Null, Str(<<>>), Str(<<"x">>)}

InputCompleteData ==
    InputPlain \cup
    {CompleteData(n, p, g, y, k) :
        n \in InputNames, p \in InputPhones, g \in InputGenders,
        y \in InputBirthYears, k \in InputCountries}
InputCreateData ==
    InputPlain \cup
    {CreateData(e, p, k) : e \in InputEmails, p \in InputPasswords, k \in InputCodes}
InputUpdateData ==
    InputPlain \cup
    {UpdateData(n, p, c, t) :
        n \in InputNames, p \in InputPhones, c \in InputCities, t \in InputTowns}

NextInputs ==
    \/ /\ CanInvoke(1) /\ before' = users
       /\ \E data \in InputCreateData : createUser_invoke(1, data)
    \/ /\ CanInvoke(1) /\ before' = users
       /\ \E id \in InputIds, data \in InputCompleteData : completeUser_invoke(1, id, data)
    \/ /\ CanInvoke(1) /\ before' = users
       /\ \E id \in InputIds, data \in InputUpdateData : updateUser_invoke(1, id, data)
    \/ createUser_save(1)
    \/ completeUser_getCountry(1)
    \/ completeUser_findById(1)
    \/ completeUser_update(1)
    \/ updateUser_findById(1)
    \/ updateUser_update(1)

SpecInputs == Init /\ [][NextInputs]_vars

(***************************************************************************)
(* What the calls did.                                                     *)
(***************************************************************************)
Ended(c, op) == calls[c].op = op /\ calls[c].pc = "done"
Succeeded(c) == Len(calls[c].cb) = 1 /\ calls[c].cb[1].err = "null"
Failed(c, err) == calls[c].cb = <<[err |-> err, res |-> NoResult]>>
IdOf(c) == toString(calls[c].args.id)
Latest(c) == \A d \in CallIds : d > c => calls[d].pc = "idle"

\* The profile a completion with data leaves in document doc.
Completes(doc, data) ==
    /\ doc.completed
    /\ doc.name = data.name
    /\ doc.phone = Str(StripSpaces(data.phone.s))
    /\ doc.gender = data.gender
    /\ doc.birth_year = Number(ParseInt(data.birth_year).v)
    /\ doc.country = Str(CountryCodes[data.country.s])

(***************************************************************************)
(* C1. completeUser called twice in sequence on an existing account that   *)
(* is not completed, with valid data: the first call calls back without an *)
(* error and leaves completed = true, the second calls back with           *)
(* already_authenticated and leaves the collection as it was. Stated for   *)
(* every call of a sequence: on an account not yet completed it succeeds,  *)
(* on a completed one it is refused and changes nothing.                   *)
(***************************************************************************)
C1_CompleteTwiceInSequence ==
    \A c \in CallIds :
        (Ended(c, "completeUser") /\ Latest(c) /\ ~calls[c].faulted
            /\ IdOf(c) \in DOMAIN before) =>
            IF before[IdOf(c)].completed
            THEN Failed(c, "already_authenticated") /\ users = before
            ELSE /\ Succeeded(c)
                 /\ Completes(users[IdOf(c)], calls[c].args.data)

C1_Witness ==
    /\ MaxCalls >= 2
    /\ Ended(1, "completeUser") /\ Succeeded(1)
    /\ Ended(2, "completeUser") /\ Failed(2, "already_authenticated")
    /\ calls[2].args = calls[1].args
    /\ users = before /\ users[IdOf(1)].completed

(***************************************************************************)
(* C2. A createUser that passes its argument checks and whose email is     *)
(* stored when it saves calls back with email_duplication (a save that     *)
(* fails for another reason is a database_error whatever the email), and   *)
(* no two documents share an email, whatever the interleaving of calls.    *)
(***************************************************************************)
C2_DuplicateEmail ==
    /\ \A c \in CallIds :
        (Ended(c, "createUser") /\ calls[c].dup /\ ~calls[c].faulted) =>
            Failed(c, "email_duplication") /\ ~calls[c].wrote
    /\ \A i, j \in DOMAIN users : users[i].email = users[j].email => i = j

\* two calls with the same email, both past their checks before either saved
C2_Witness ==
    \E c, d \in CallIds :
        /\ Ended(c, "createUser") /\ Ended(d, "createUser")
        /\ calls[c].args = calls[d].args
        /\ Succeeded(c) /\ calls[c].wrote
        /\ Failed(d, "email_duplication") /\ calls[d].dup

(***************************************************************************)
(* C5. A step of findUser changes the collection only by rewriting the     *)
(* legacy gender it read to the canonical one; a findUser that succeeds    *)
(* on a legacy gender leaves the canonical gender stored and calls back    *)
(* with the document without its password; one that fails, or that read    *)
(* another gender, changes no document.                                    *)
(***************************************************************************)
Canonical(gender) == IF gender.s = Erkek THEN Str(Male) ELSE Str(Female)
ReadLegacy(call) == call.user # NoDoc /\ call.user.gender \in {Str(Erkek), Str(Kadin)}

C5_FindUserStep(c) ==
    LET call == calls'[c]
        id == call.user._id
    IN  /\ users' # users =>
            /\ ReadLegacy(call) /\ ~call.faulted
            /\ users' = [users EXCEPT ![id].gender = Canonical(call.user.gender)]
        /\ (call.pc = "done" /\ call.cb[1].err = "null") =>
            /\ Len(call.cb) = 1
            /\ "password" \notin DOMAIN call.cb[1].res
            /\ call.cb[1].res.email = call.args.email.s
            /\ ReadLegacy(call) =>
                /\ users'[id].gender = Canonical(call.user.gender)
                /\ call.cb[1].res.gender = Canonical(call.user.gender)
            /\ ~ReadLegacy(call) => users' = users /\ ~call.wrote
        /\ (call.cb # <<>> /\ call.cb[1].err # "null") => users' = users /\ ~call.wrote

C5_FindUserNormalizes ==
    [][\A c \in CallIds :
        (calls'[c] # calls[c] /\ calls'[c].op = "findUser") => C5_FindUserStep(c)]_vars

C5_Witness ==
    \E c \in CallIds :
        /\ Ended(c, "findUser") /\ Succeeded(c) /\ calls[c].wrote
        /\ calls[c].user.gender = Str(Erkek)
        /\ users[calls[c].user._id].gender = Str(Male)

(***************************************************************************)
(* C6. Every call resolves through its callback exactly once, and no step  *)
(* of a call runs after its callback was given an error.                   *)
(***************************************************************************)
C6_CallbackOnce ==
    \A c \in CallIds :
        /\ Len(calls[c].cb) <= 1
        /\ ~calls[c].late
        /\ calls[c].pc = "done" => Len(calls[c].cb) = 1

(***************************************************************************)
(* C8. As claimed: of the completeUser calls on one account, whatever      *)
(* their interleaving, at most one calls back with success.                *)
(***************************************************************************)
C8_AtMostOneCompletion ==
    \A c, d \in CallIds :
        (Ended(c, "completeUser") /\ Succeeded(c)
            /\ Ended(d, "completeUser") /\ Succeeded(d) /\ IdOf(c) = IdOf(d)) => c = d

(***************************************************************************)
(* C8, amended. completed is terminal for the completeUser calls that read *)
(* the account after it was completed: such a call is refused with         *)
(* already_authenticated and writes nothing, and a call succeeds only on a *)
(* document it read with completed = false.                                *)
(***************************************************************************)
C8_RefusedOnceReadCompleted ==
    \A c \in CallIds :
        (Ended(c, "completeUser") /\ calls[c].user # NoDoc) =>
            /\ calls[c].user.completed =>
                Failed(c, "already_authenticated") /\ ~calls[c].wrote
            /\ Succeeded(c) =>
                ~calls[c].user.completed /\ calls[c].wrote /\ users[IdOf(c)].completed
            /\ calls[c].wrote => Succeeded(c)

\* one call completed the account, a later read of another call found it completed
C8_Witness ==
    \E c, d \in CallIds :
        /\ Ended(c, "completeUser") /\ Succeeded(c)
        /\ Ended(d, "completeUser") /\ Failed(d, "already_authenticated")
        /\ IdOf(c) = IdOf(d) /\ calls[d].user.completed /\ ~calls[c].user.completed

(***************************************************************************)
(* C10. As claimed: a completed account has a name, a phone, a gender, a   *)
(* birth year and a country.                                               *)
(***************************************************************************)
C10_CompletedHasProfile ==
    \A id \in DOMAIN users :
        users[id].completed =>
            /\ users[id].name # Null /\ users[id].phone # Null
            /\ users[id].gender # Null /\ users[id].birth_year # NullNumber
            /\ users[id].country # Null

(***************************************************************************)
(* C10, amended. A completed account has a gender, a birth year and a      *)
(* country, and completed never returns from true to false; its name and   *)
(* phone are not protected from the stale write of an updateUser.          *)
(***************************************************************************)
C10_CompletedCore ==
    \A id \in DOMAIN users :
        users[id].completed =>
            /\ users[id].gender # Null /\ users[id].birth_year # NullNumber
            /\ users[id].country # Null

C10_CompletedStays ==
    \A id \in DOMAIN users : users[id].completed => users'[id].completed

C10_CompletedKeepsCore == []C10_CompletedCore /\ [][C10_CompletedStays]_vars

\* an updateUser that read the account before its completion wrote after it
C10_Witness ==
    \E c \in CallIds :
        /\ Ended(c, "updateUser") /\ Succeeded(c) /\ ~calls[c].user.completed
        /\ users[IdOf(c)].completed
        /\ users[IdOf(c)].name = Null /\ users[IdOf(c)].phone = Null
        /\ users[IdOf(c)].gender # Null

(***************************************************************************)
(* C3. completeUser reports the error of the first check that fails, in    *)
(* the order: identifier and payload, name, phone (blanks stripped),       *)
(* gender, birth year within 1920..2020, country, account found, account   *)
(* not completed; it writes the document exactly when all eight pass.      *)
(***************************************************************************)
PhoneValid(phone) == Truthy(phone) /\ IsMobilePhone(StripSpaces(toString(phone)))

FirstFailingCheck(id, data, stored) ==
    IF data.t # "obj" \/ id.t # "str" \/ ~IsMongoId(id.s) THEN "bad_request"
    ELSE IF data.name.t # "str" \/ data.name.s = <<>> THEN "bad_request"
    ELSE IF ~PhoneValid(data.phone) THEN "phone_validation"
    ELSE IF data.gender \notin {Str(Male), Str(Female), Str(Other), Str(NotSpecified)}
    THEN "bad_request"
    ELSE IF \/ ParseInt(data.birth_year).nan
            \/ ParseInt(data.birth_year).v \notin 1920..2020
    THEN "bad_request"
    ELSE IF ~getCountryWithAlpha2Code(data.country).found THEN "bad_request"
    ELSE IF id.s \notin DOMAIN stored THEN "document_not_found"
    ELSE IF stored[id.s].completed THEN "already_authenticated"
    ELSE "null"

C3_Step(c) ==
    LET expected == FirstFailingCheck(calls[c].args.id, calls[c].args.data, before)
    IN  /\ calls[c].pc = "done"
        /\ Len(calls[c].cb) = 1 /\ calls[c].cb[1].err = expected
        /\ IF expected = "null"
           THEN calls[c].wrote /\ Completes(users[IdOf(c)], calls[c].args.data)
           ELSE users = before

C3_FirstFailingCheck ==
    (calls[1].op = "completeUser" /\ calls[1].pc \in {"done", "thrown"}
        /\ ~calls[1].faulted) => C3_Step(1)

\* The same for the calls whose phone is absent or a string.
CompleteUserOrder_StringPhone ==
    (calls[1].op = "completeUser" /\ calls[1].pc \in {"done", "thrown"}
        /\ ~calls[1].faulted
        /\ Field(calls[1].args.data, "phone").t \in {"null", "str"}) => C3_Step(1)

(***************************************************************************)
(* C4. As claimed: createUser with a well-formed email that is not         *)
(* registered fails with password_length when the password has 5           *)
(* characters or less and succeeds when it has 6 or more; the account it   *)
(* stores has agreement_approved = true, completed = false and, as         *)
(* invitor, the code when it is a well-formed identifier, else null.       *)
(***************************************************************************)
C4_Case(c) ==
    LET data == calls[c].args.data
    IN  /\ Ended(c, "createUser") /\ ~calls[c].faulted
        /\ data.t = "obj" /\ data.email.t = "str" /\ data.email.s # <<>>
        /\ IsEmail(data.email.s)
        /\ \A id \in DOMAIN before : before[id].email # data.email.s
        /\ data.password.t = "str"

C4_Stored(c) ==
    LET data == calls[c].args.data
        new == DOMAIN users \ DOMAIN before
    IN  /\ Succeeded(c)
        /\ Cardinality(new) = 1
        /\ \A id \in new :
            /\ users[id].email = data.email.s
            /\ users[id].password = hashPassword(data.password.s)
            /\ users[id].agreement_approved /\ ~users[id].completed
            /\ users[id].invitor =
                    IF data.code.t \in {"str", "num"} /\ IsMongoId(data.code.s)
                    THEN Str(data.code.s) ELSE Null
        /\ \A id \in DOMAIN before : users[id] = before[id]

C4_PasswordBoundary ==
    C4_Case(1) =>
        IF Len(calls[1].args.data.password.s) <= 5
        THEN Failed(1, "password_length") /\ users = before
        ELSE C4_Stored(1)

(***************************************************************************)
(* C4, amended. The same for the passwords of 1 to 5 characters; an empty  *)
(* password is a missing one and fails with bad_request.                   *)
(***************************************************************************)
C4_PasswordBoundaryNonEmpty ==
    C4_Case(1) =>
        IF calls[1].args.data.password.s = <<>>
        THEN Failed(1, "bad_request") /\ users = before
        ELSE IF Len(calls[1].args.data.password.s) <= 5
        THEN Failed(1, "password_length") /\ users = before
        ELSE C4_Stored(1)

\* a password of exactly 6 characters is stored, with the code as invitor
C4_Witness ==
    /\ C4_Case(1) /\ C4_Stored(1)
    /\ Len(calls[1].args.data.password.s) = 6
    /\ calls[1].args.data.code = Str(Oid1)
    /\ \E id \in DOMAIN users \ DOMAIN before : users[id].invitor = Str(Oid1)

(***************************************************************************)
(* C7. updateUser on an existing account with a structured data object:    *)
(* city and town, when both are given, are validated against the stored    *)
(* country, a failure gives bad_request and no write, a success stores     *)
(* them with name and phone; otherwise only name and phone are written.    *)
(* Name and phone fall back to the stored value when absent or invalid.    *)
(***************************************************************************)
C7_NameOf(data, doc) == IF data.name.t = "str" /\ data.name.s # <<>> THEN data.name ELSE doc.name
C7_PhoneOf(data, doc) ==
    IF Truthy(data.phone) /\ IsMobilePhone(toString(data.phone)) THEN data.phone ELSE doc.phone

C7_UpdateStructured ==
    LET data == calls[1].args.data
        id == IdOf(1)
    IN  (Ended(1, "updateUser") /\ ~calls[1].faulted /\ data.t = "obj"
            /\ calls[1].args.id.t = "str" /\ id \in DOMAIN before) =>
            IF data.city # Null /\ data.town # Null
            THEN IF validateCityAndTown(before[id].country, data.city, data.town)
                 THEN /\ Succeeded(1)
                      /\ users = [before EXCEPT ![id].name = C7_NameOf(data, @),
                                                ![id].phone = C7_PhoneOf(data, @),
                                                ![id].city = data.city,
                                                ![id].town = data.town]
                 ELSE Failed(1, "bad_request") /\ users = before
            ELSE /\ Succeeded(1)
                 /\ users = [before EXCEPT ![id].name = C7_NameOf(data, @),
                                           ![id].phone = C7_PhoneOf(data, @)]

(***************************************************************************)
(* The submissions report handler: GET ?id=&version=                       *)
(*                                                                         *)
(* report.all is the campaign's submissions as stored, report.submitions   *)
(* the filtered list the handler works on, report.status and               *)
(* report.results the state of async.times: one lookup per index. Once the *)
(* final callback of async.times has been called, a lookup that completes  *)
(* changes nothing the handler can see and only its status is recorded.    *)
(***************************************************************************)
Min(a, b) == IF a < b THEN a ELSE b

\* async.times without the cap of the handler
lookupCount_uncapped(submitions) == Len(submitions)

\* The number of iterations the handler gives async.times.
lookupCount(submitions) == Min(Len(submitions), MaxLookups)

\* campaign.submitions.filter(each => each.version == parseInt(req.query.version))
filterVersion(submitions, version) ==
    SelectSeq(submitions,
              LAMBDA each : ~ParseInt(version).nan /\ each.version = ParseInt(version).v)

Redirect(to) == [kind |-> "redirect", to |-> to, submitions |-> <<>>]
Render(view, submitions) == [kind |-> "render", to |-> view, submitions |-> submitions]

Respond(r, response) == [r EXCEPT !.responses = Append(@, response)]

\* The final callback of async.times; async calls it once.
finalCallback(r, err) ==
    IF r.called THEN r
    ELSE Respond([r EXCEPT !.called = TRUE],
                 IF err THEN Redirect("/admin")
                 ELSE Render("admin/submitions", r.results))

SubmissionKinds == {[user_id |-> u, version |-> v] : u \in {Oid1, Oid2}, v \in {1, 2}}

\* Every campaign of up to MaxOrder submissions, and campaigns around the cap;
\* the answers of a submission name its place in the campaign.
Campaigns ==
    {[i \in DOMAIN f |-> [user_id |-> f[i].user_id, version |-> f[i].version,
                          answers |-> <<i>>]] :
        f \in UNION {[1..len -> SubmissionKinds] : len \in 0..MaxOrder}}
    \cup
    {[i \in 1..len |-> [user_id |-> IF i % 2 = 1 THEN Oid1 ELSE Oid2, version |-> 1,
                        answers |-> <<i>>]] :
        len \in (MaxLookups - 1)..MaxSubs}

Queries ==
    {[id |-> id, version |-> v] :
        id \in {Null, Str(Oid1)},
        v \in {Null, Str(<<"1">>), Str(<<"2">>), Str(<<"x">>)}}

report_request(query, all) ==
    /\ report.pc = "idle"
    /\ LET r == [pc |-> "findById", query |-> query, all |-> all, submitions |-> <<>>,
                 n |-> 0, status |-> <<>>, results |-> <<>>, called |-> FALSE,
                 failed |-> FALSE, responses |-> <<>>]
       IN  report' =
            IF ~Truthy(query.id) \/ ~Truthy(query.version)
            THEN [Respond(r, Redirect("/admin")) EXCEPT !.pc = "done"]
            ELSE r
    /\ UNCHANGED <<users, calls, before>>

\* Campaign.findById's callback, the filter and the start of async.times
report_findById ==
    /\ report.pc = "findById"
    /\ \E found \in BOOLEAN :
        IF ~found
        THEN report' = [Respond(report, Redirect("/admin")) EXCEPT !.pc = "done"]
        ELSE LET submitions == filterVersion(report.all, report.query.version)
                 n == lookupCount(submitions)
                 r == [report EXCEPT !.submitions = submitions, !.n = n,
                                     !.status = [i \in 1..n |-> "pending"],
                                     !.results = [i \in 1..n |-> NoResult]]
             IN  report' = IF n = 0 THEN [finalCallback(r, FALSE) EXCEPT !.pc = "done"]
                           ELSE [r EXCEPT !.pc = "lookups"]
    /\ UNCHANGED <<users, calls, before>>

\* The lookups of a report complete in any order; the completions of different
\* lookups commute, and of a report of more than MaxOrder lookups the
\* completions in the order of the indices are explored.
Schedulable(i) ==
    \/ report.n <= MaxOrder
    \/ \A j \in 1..report.n : j < i => report.status[j] # "pending"

\* The callback of the i-th User.findById
report_lookup(i) ==
    /\ report.pc = "lookups"
    /\ i \in 1..report.n /\ report.status[i] = "pending"
    /\ Schedulable(i)
    /\ \E fault \in BOOLEAN :
        LET r == [report EXCEPT !.status[i] = "completed"]
            all == \A j \in 1..r.n : r.status[j] = "completed"
            after ==
                IF r.called THEN r
                ELSE IF fault THEN finalCallback([r EXCEPT !.failed = TRUE], TRUE)
                ELSE LET got == [r EXCEPT !.results[i] =
                                    [user |-> findById(r.submitions[i].user_id),
                                     answers |-> r.submitions[i].answers]]
                     IN  IF all THEN finalCallback(got, FALSE) ELSE got
        IN  report' = [after EXCEPT !.pc = IF all THEN "done" ELSE "lookups"]
    /\ UNCHANGED <<users, calls, before>>

NextReport ==
    \/ /\ report.pc = "idle"
       /\ \E query \in Queries, all \in Campaigns : report_request(query, all)
    \/ report_findById
    \/ \E i \in 1..MaxLookups : report_lookup(i)

SpecReport == Init /\ [][NextReport]_vars

(***************************************************************************)
(* C9. For a campaign with n submissions of the requested version the      *)
(* handler starts min(n, 30) lookups and sends one response: the report,   *)
(* once every lookup has completed successfully, with the results in the   *)
(* order of the submissions, each with the answers of its submission; a    *)
(* redirect to /admin as soon as one lookup fails; whatever the order in   *)
(* which the lookups complete.                                             *)
(***************************************************************************)
\* The submissions of version v among all, in the order of the campaign.
RECURSIVE OfVersion(_, _)
OfVersion(all, v) ==
    IF all = <<>> THEN <<>>
    ELSE (IF Head(all).version = v THEN <<Head(all)>> ELSE <<>>) \o OfVersion(Tail(all), v)

Requested(r) ==
    IF ParseInt(r.query.version).nan THEN <<>>
    ELSE OfVersion(r.all, ParseInt(r.query.version).v)

C9_Started(r) ==
    LET requested == Requested(r)
        started == IF Len(requested) < 30 THEN Len(requested) ELSE 30
        completed == {i \in 1..r.n : r.status[i] = "completed"}
    IN  /\ r.n = started /\ DOMAIN r.status = 1..started
        /\ Len(r.responses) <= 1
        /\ r.pc = "done" => Len(r.responses) = 1
        /\ r.failed => r.responses = <<Redirect("/admin")>>
        /\ (~r.failed /\ completed # 1..started) => r.responses = <<>>
        /\ (~r.failed /\ completed = 1..started) =>
            /\ Len(r.responses) = 1 /\ r.responses[1].kind = "render"
            /\ Len(r.responses[1].submitions) = started
            /\ \A i \in 1..started :
                /\ r.responses[1].submitions[i].answers = requested[i].answers
                /\ r.responses[1].submitions[i].user = findById(requested[i].user_id)

C9_ReportFanOut ==
    /\ report.pc \in {"idle", "findById"} => Len(report.responses) = 0
    /\ (report.pc = "done" /\ DOMAIN report.status = {} /\ report.n = 0) =>
            Len(report.responses) = 1
    /\ (report.pc = "lookups" \/ (report.pc = "done" /\ report.called)) => C9_Started(report)

\* a campaign of more submissions than the cap, reported after 30 lookups
C9_Witness ==
    /\ report.pc = "done" /\ Len(report.all) > 30 /\ report.n = 30
    /\ Len(report.responses) = 1 /\ report.responses[1].kind = "render"
    /\ Len(report.responses[1].submitions) = 30

====
